------------------------------ MODULE Spec2Model ------------------------------
(***************************************************************************)
(* Two-stage text pipeline of problem3: the Document Processor             *)
(* (processor/process.py) and the Corpus Aggregator (analyzer/analyze.py), *)
(* coordinating through marker files on a shared filesystem.               *)
(*                                                                         *)
(* Strings are TLA+ strings; a character is a string of length 1.          *)
(***************************************************************************)
EXTENDS Integers, Sequences, FiniteSets, TLC

(***************************************************************************)
(* Characters                                                              *)
(***************************************************************************)
At(s, i) == SubSeq(s, i, i)

\* the printable ASCII characters 32..95 and 97..126
Printable1 ==
  " !\"#$%&'()*+,-./0123456789:;<=>?@ABCDEFGHIJKLMNOPQRSTUVWXYZ[\\]^_"

Printable2 == "abcdefghijklmnopqrstuvwxyz{|}~"

\* ord(): the code point of every character the model uses
Ord ==
  [c \in {At(Printable1, i) : i \in 1..Len(Printable1)} |->
      31 + (CHOOSE i \in 1..Len(Printable1) : At(Printable1, i) = c)]
  @@ [c \in {At(Printable2, i) : i \in 1..Len(Printable2)} |->
      96 + (CHOOSE i \in 1..Len(Printable2) : At(Printable2, i) = c)]
  @@ ("\t" :> 9) @@ ("\n" :> 10) @@ ("\f" :> 12) @@ ("\r" :> 13)

Chr(n) == CHOOSE c \in DOMAIN Ord : Ord[c] = n

\* str.lower() on one character
LowerChar(c) == IF Ord[c] >= 65 /\ Ord[c] <= 90 THEN Chr(Ord[c] + 32) ELSE c

\* str.lower()
Lower(str) ==
  LET L[s \in STRING] ==
        IF s = "" THEN ""
        ELSE IF Len(s) = 1 THEN LowerChar(s)
        ELSE L[SubSeq(s, 1, Len(s) \div 2)] \o L[SubSeq(s, Len(s) \div 2 + 1, Len(s))]
  IN  L[str]

\* \w
IsWord(c) ==
  \/ Ord[c] >= 48 /\ Ord[c] <= 57
  \/ Ord[c] >= 65 /\ Ord[c] <= 90
  \/ Ord[c] >= 97 /\ Ord[c] <= 122
  \/ c = "_"

\* \s, and the characters str.strip() removes
IsSpace(c) == c \in {" ", "\t", "\n", "\r", "\f"}

\* horizontal whitespace
IsHSpace(c) == c \in {" ", "\t", "\f"}

IsNewline(c) == c = "\n"

\* sentence terminators
IsSentenceEnd(c) == c \in {".", "!", "?"}

\* str < str (lexicographic by code point), the order sorted() uses
StrLess(a, b) ==
  LET Less[x \in STRING, y \in STRING] ==
        \E i \in 1..(Len(y)) :
           /\ i <= Len(x) + 1
           /\ SubSeq(x, 1, i - 1) = SubSeq(y, 1, i - 1)
           /\ (i = Len(x) + 1 \/ Ord[At(x, i)] < Ord[At(y, i)])
  IN  Less[a, b]

\* sorted() of a set of distinct strings
SortedStrings(S) ==
  LET Sorted[T \in SUBSET STRING] ==
        IF T = {} THEN <<>>
        ELSE LET First[m \in STRING] == <<m>> \o Sorted[T \ {m}]
             IN  First[CHOOSE x \in T : \A y \in T \ {x} : StrLess(x, y)]
  IN  Sorted[S]

\* the elements of a set of integers in ascending order
SortedInts(S) ==
  LET Sorted[T \in SUBSET Int] ==
        [k \in 1..Cardinality(T) |-> CHOOSE x \in T : Cardinality({y \in T : y < x}) = k - 1]
  IN  Sorted[S]

\* str(int) for a non-negative integer
RECURSIVE IntToStr(_)
IntToStr(n) ==
  IF n < 10 THEN At("0123456789", n + 1)
  ELSE IntToStr(n \div 10) \o At("0123456789", (n % 10) + 1)

(***************************************************************************)
(* Regular-expression helpers.  A matcher M(s, i) gives the index just     *)
(* past the match of its pattern starting at position i, or 0.             *)
(***************************************************************************)
\* s[i:] starts with the lower-case literal lit, ignoring case
StartsWithCI(s, i, lit) ==
  /\ i + Len(lit) - 1 <= Len(s)
  /\ Lower(SubSeq(s, i, i + Len(lit) - 1)) = lit

Least(S) == CHOOSE x \in S : \A y \in S : x <= y

\* the least k >= i with Q(s[k]), or 0
FirstFrom(Q(_), s, i) ==
  LET Hit[hits \in SUBSET Nat] == IF hits = {} THEN 0 ELSE Least(hits)
      First[t \in STRING, j \in Int] == Hit[{k \in j..Len(t) : Q(At(t, k))}]
  IN  First[s, i]

\* index just past the maximal run of P-characters starting at i
RunEnd(P(_), s, i) ==
  LET End[k \in Nat] == IF k = 0 THEN Len(s) + 1 ELSE k
  IN  End[FirstFrom(LAMBDA c : ~P(c), s, i)]

\* a run of at least min C-characters
RunAt(C(_), min, s, i) ==
  LET Run[e \in Nat] == IF e - i >= min THEN e ELSE 0
  IN  Run[RunEnd(C, s, i)]

\* the positions of s where the pattern matches a non-empty string
MatchStarts(M(_, _), s) == {k \in 1..Len(s) : M(s, k) > k}

\* re.sub(pattern, rep, s): the leftmost match from the scan position is
\* replaced and the scan resumes just past it
ReSub(M(_, _), rep, str) ==
  LET Sub[s \in STRING] ==
        LET From[starts \in SUBSET Nat] ==
              LET R[i \in 1..(Len(s) + 1)] ==
                    LET next == {k \in starts : k >= i}
                    IN  IF next = {} THEN SubSeq(s, i, Len(s))
                        ELSE SubSeq(s, i, Least(next) - 1) \o rep \o R[M(s, Least(next))]
              IN  R[1]
        IN  From[MatchStarts(M, s)]
  IN  Sub[str]

\* re.split(pattern, s)
ReSplit(M(_, _), str) ==
  LET Split[s \in STRING] ==
        LET From[starts \in SUBSET Nat] ==
              LET R[i \in 1..(Len(s) + 1)] ==
                    LET next == {k \in starts : k >= i}
                    IN  IF next = {} THEN <<SubSeq(s, i, Len(s))>>
                        ELSE <<SubSeq(s, i, Least(next) - 1)>> \o R[M(s, Least(next))]
              IN  R[1]
        IN  From[MatchStarts(M, s)]
  IN  Split[str]

\* str.strip()
Strip(str) ==
  LET S[s \in STRING] ==
        LET From[a \in Nat] ==
              IF a = 0 THEN ""
              ELSE SubSeq(s, a, CHOOSE k \in a..Len(s) :
                                  /\ ~IsSpace(At(s, k))
                                  /\ \A j \in (k + 1)..Len(s) : IsSpace(At(s, j)))
        IN  From[FirstFrom(LAMBDA c : ~IsSpace(c), s, 1)]
  IN  S[str]

\* sep.join(parts)
Join(sep, parts) ==
  LET J[ps \in Seq(STRING)] ==
        IF ps = <<>> THEN ""
        ELSE IF Len(ps) = 1 THEN ps[1]
        ELSE ps[1] \o sep \o J[Tail(ps)]
  IN  J[parts]

\* the element pattern: open tag up to its first >, then the shortest text
\* up to the closing tag, DOTALL and IGNORECASE
ElementAt(tag, s, i) ==
  IF StartsWithCI(s, i, "<" \o tag)
  THEN LET j == FirstFrom(LAMBDA c : c = ">", s, i + Len(tag) + 1)
           close == "</" \o tag \o ">"
       IN  IF j = 0 THEN 0
           ELSE LET ends == {k \in (j + 1)..Len(s) : StartsWithCI(s, k, close)}
                IN  IF ends = {} THEN 0 ELSE Least(ends) + Len(close)
  ELSE 0

\* a literal, IGNORECASE
LiteralAt(lit, s, i) == IF StartsWithCI(s, i, lit) THEN i + Len(lit) ELSE 0

\* the br tag, with optional whitespace and slash, IGNORECASE
BrAt(s, i) ==
  IF StartsWithCI(s, i, "<br")
  THEN LET j == RunEnd(IsSpace, s, i + 3)
           k == IF j <= Len(s) /\ At(s, j) = "/" THEN j + 1 ELSE j
       IN  IF k <= Len(s) /\ At(s, k) = ">" THEN k + 1 ELSE 0
  ELSE 0

\* a closing h1..h6 tag, IGNORECASE
HeadingCloseAt(s, i) ==
  IF /\ StartsWithCI(s, i, "</h")
     /\ i + 4 <= Len(s)
     /\ At(s, i + 3) \in {"1", "2", "3", "4", "5", "6"}
     /\ At(s, i + 4) = ">"
  THEN i + 5 ELSE 0

\* any tag: < then one or more characters other than > then >
TagAt(s, i) ==
  IF i <= Len(s) /\ At(s, i) = "<"
  THEN LET j == FirstFrom(LAMBDA c : c = ">", s, i + 1)
       IN  IF j > i + 1 THEN j + 1 ELSE 0
  ELSE 0

\* re.findall of attr= followed by an optional quote and a captured run of
\* characters other than quote, space and >, IGNORECASE
AttrValues(attr, str) ==
  LET IsValue(c) == c \notin {"'", "\"", " ", ">"}
      Find[s \in STRING] ==
        LET ValueStart(i) ==
              LET v == i + Len(attr) + 1
              IN  IF v <= Len(s) /\ At(s, v) \in {"'", "\""} THEN v + 1 ELSE v
            AttrAt(t, i) ==
              IF /\ StartsWithCI(t, i, attr \o "=")
                 /\ RunEnd(IsValue, t, ValueStart(i)) > ValueStart(i)
              THEN RunEnd(IsValue, t, ValueStart(i)) ELSE 0
            From[starts \in SUBSET Nat] ==
              LET R[i \in 1..(Len(s) + 1)] ==
                    LET next == {k \in starts : k >= i}
                    IN  IF next = {} THEN <<>>
                        ELSE <<SubSeq(s, ValueStart(Least(next)), AttrAt(s, Least(next)) - 1)>>
                             \o R[AttrAt(s, Least(next))]
              IN  R[1]
        IN  From[MatchStarts(AttrAt, s)]
  IN  Find[str]

(***************************************************************************)
(* processor/process.py: text extraction and per-document statistics       *)
(***************************************************************************)
\* the line breaks: closing p, br, closing div, li, h1..h6 and tr become
\* a newline, in this order
BreakLines(html_content) ==
  ReSub(LAMBDA s, i : LiteralAt("</tr>", s, i), "\n",
    ReSub(HeadingCloseAt, "\n",
      ReSub(LAMBDA s, i : LiteralAt("</li>", s, i), "\n",
        ReSub(LAMBDA s, i : LiteralAt("</div>", s, i), "\n",
          ReSub(BrAt, "\n",
            ReSub(LAMBDA s, i : LiteralAt("</p>", s, i), "\n", html_content))))))

\* the whitespace clean-up: carriage returns become newlines, runs of two
\* or more newlines become two, runs of spaces, tabs and form feeds become
\* one space
CleanWhitespace(text) ==
  ReSub(LAMBDA s, i : RunAt(IsHSpace, 1, s, i), " ",
    ReSub(LAMBDA s, i : RunAt(IsNewline, 2, s, i), "\n\n",
      ReSub(LAMBDA s, i : LiteralAt("\r", s, i), "\n", text)))

\* every line stripped and the lines joined again
StripLines(lines) ==
  LET Stripped[ls \in Seq(STRING)] == Join("\n", [k \in 1..Len(ls) |-> Strip(ls[k])])
  IN  Stripped[lines]

\* runs of three or more newlines become two, and the whole is stripped
CollapseBlankLines(text) ==
  Strip(ReSub(LAMBDA s, i : RunAt(IsNewline, 3, s, i), "\n\n", text))

\* script and style elements are removed first
RemoveScriptStyle(html_content) ==
  ReSub(LAMBDA s, i : ElementAt("style", s, i), "",
    ReSub(LAMBDA s, i : ElementAt("script", s, i), "", html_content))

\* links, images and text of the html left by RemoveScriptStyle
ExtractFrom(html_content) ==
  LET Extract[h \in STRING] ==
        [text |->
           CollapseBlankLines(
             StripLines(ReSplit(LAMBDA s, i : LiteralAt("\n", s, i),
               CleanWhitespace(ReSub(TagAt, " ", BreakLines(h)))))),
         links |-> AttrValues("href", h),
         images |-> AttrValues("src", h)]
  IN  Extract[html_content]

strip_html(html_content) == ExtractFrom(RemoveScriptStyle(html_content))

\* re.findall of the word pattern: the maximal runs of word characters
tokenize_words(text) ==
  LET WordAt(t, i) ==
        IF IsWord(At(t, i)) /\ (i = 1 \/ ~IsWord(At(t, i - 1)))
        THEN RunEnd(IsWord, t, i) ELSE 0
      Words[t \in STRING] ==
        LET From[starts \in Seq(Nat)] ==
              [k \in 1..Len(starts) |-> SubSeq(t, starts[k], WordAt(t, starts[k]) - 1)]
        IN  From[SortedInts(MatchStarts(WordAt, t))]
  IN  Words[text]

split_sentences(text) ==
  LET Stripped[parts \in Seq(STRING)] == [k \in 1..Len(parts) |-> Strip(parts[k])]
  IN  Stripped[SelectSeq(ReSplit(LAMBDA s, i : RunAt(IsSentenceEnd, 1, s, i), text),
                         LAMBDA p : Strip(p) # "")]

count_paragraphs_from_text_preserving_double_newlines(text) ==
  LET Count[stripped \in STRING] ==
        IF stripped = "" THEN 0
        ELSE Len(SelectSeq(ReSplit(LAMBDA s, i : RunAt(IsNewline, 2, s, i), stripped),
                           LAMBDA p : Strip(p) # ""))
  IN  Count[Strip(text)]

SumLen(words) ==
  LET Sum[ws \in Seq(STRING)] == IF ws = <<>> THEN 0 ELSE Len(Head(ws)) + Sum[Tail(ws)]
  IN  Sum[words]

\* round(num / den, digits), as an integer count of 10^-digits units.
\* Exact halves go to the even neighbour; they need den >= 16.
RoundRatio(num, den, scale) ==
  LET q == (num * scale) \div den
      r == (num * scale) % den
  IN  IF 2 * r > den THEN q + 1
      ELSE IF 2 * r = den THEN (IF q % 2 = 0 THEN q ELSE q + 1)
      ELSE q


\* os.path.join(dir, name)
os_path_join(dir, name) == dir \o "/" \o name

\* os.path.basename(path)
os_path_basename(path) ==
  LET Base[p \in STRING] ==
        LET slashes == {k \in 1..Len(p) : At(p, k) = "/"}
        IN  IF slashes = {} THEN p
            ELSE SubSeq(p, (CHOOSE k \in slashes : \A j \in slashes : j <= k) + 1, Len(p))
  IN  Base[path]

\* str.endswith(suffix)
EndsWith(s, suffix) ==
  Len(s) >= Len(suffix) /\ SubSeq(s, Len(s) - Len(suffix) + 1, Len(s)) = suffix

\* a listing of the directory that does not look at the extension
Glob_AnyExtension(dir, names, ext) ==
  {os_path_join(dir, n) : n \in {m \in names : At(m, 1) # "."}}

\* glob(os.path.join(dir, "*" + ext)) over the names of a directory; the
\* star does not match a leading dot
Glob(dir, names, ext) ==
  {os_path_join(dir, n) : n \in {m \in names : EndsWith(m, ext) /\ At(m, 1) # "."}}

STATUS_DIR == "/shared/status"
RAW_DIR == "/shared/raw"
PROCESSED_DIR == "/shared/processed"
ANALYSIS_DIR == "/shared/analysis"

\* Python's None
None == "<None>"

(***************************************************************************)
(* Bounds and the input universe                                           *)
(***************************************************************************)
MaxPage == 2

\* a byte sequence that is not valid UTF-8
InvalidByte == "<0xff>"

\* file names the raw directory may hold
RawNames ==
  {"a.html", "notes.txt"} \cup {"page_" \o IntToStr(n) \o ".html" : n \in 1..MaxPage}

\* contents a raw file may have: chunks of bytes, readable or not
RawContents ==
  { [readable |-> FALSE, bytes |-> <<>>],
    [readable |-> TRUE,  bytes |-> <<"<p>b ", InvalidByte, "a</p>">>],
    [readable |-> TRUE,  bytes |-> <<"<div>A b. a!</div><script>x</script>">>] }

\* bytes.decode('utf-8', errors='ignore')
Decode(bytes) == Join("", SelectSeq(bytes, LAMBDA c : c # InvalidByte))

(***************************************************************************)
(* Files.  A directory is a function from file names to files; a file that *)
(* has been opened for writing and not yet dumped is not complete.         *)
(***************************************************************************)
ZeroStats ==
  [word_count |-> 0, sentence_count |-> 0, paragraph_count |-> 0, avg_word_length |-> 0]

\* the JSON value of a file: type is "object", "list" (any non-object JSON
\* value) or "invalid" (no JSON document); text_type is "str", "number" or
\* "absent"
NoJson ==
  [type |-> "invalid", text_type |-> "absent", source_file |-> "", text |-> "",
   statistics |-> ZeroStats, links |-> <<>>, images |-> <<>>, processed_at |-> 0]

\* open(path, 'w'): the file exists and is empty
OpenedFile == [complete |-> FALSE, readable |-> TRUE, json |-> NoJson]

\* the file after json.dump and close
DumpedFile(obj) == [complete |-> TRUE, readable |-> TRUE, json |-> obj]

\* records another program may have left in the processed directory
ForeignNames == {"x.json"}

ForeignFiles ==
  { [complete |-> TRUE, readable |-> FALSE, json |-> NoJson],
    [complete |-> TRUE, readable |-> TRUE,  json |-> NoJson],
    [complete |-> TRUE, readable |-> TRUE,  json |-> [NoJson EXCEPT !.type = "list"]],
    [complete |-> TRUE, readable |-> TRUE,
     json |-> [NoJson EXCEPT !.type = "object", !.text_type = "number"]],
    [complete |-> TRUE, readable |-> TRUE,  json |-> [NoJson EXCEPT !.type = "object"]],
    [complete |-> TRUE, readable |-> TRUE,
     json |-> [NoJson EXCEPT !.type = "object", !.text_type = "str", !.text = "a c"]] }

EmptyManifest ==
  [timestamp |-> 0, files_found |-> 0, successful |-> 0, failed |-> 0, results |-> <<>>]

\* a marker or report file that does not exist
Absent(data) == [exists |-> FALSE, complete |-> FALSE, data |-> data]

(***************************************************************************)
(* processor/process.py                                                    *)
(***************************************************************************)
\* the statistics of a text from its words, sentences and paragraph count
Statistics(words, sentences, paragraph_count) ==
  LET Stats[ws \in Seq(STRING)] ==
        [word_count |-> Len(ws),
         sentence_count |-> Len(sentences),
         paragraph_count |-> paragraph_count,
         avg_word_length |->
           IF Len(ws) # 0 THEN RoundRatio(SumLen(ws), Len(ws), 1000) ELSE 0]
  IN  Stats[words]

\* the record process_html_file returns, from the extraction r of the html
Record(fname, r, now) ==
  LET Rec[x \in [text : STRING, links : Seq(STRING), images : Seq(STRING)]] ==
        [type |-> "object", text_type |-> "str",
         source_file |-> fname, text |-> x.text,
         statistics |->
           Statistics(tokenize_words(x.text), split_sentences(x.text),
                      count_paragraphs_from_text_preserving_double_newlines(x.text)),
         links |-> x.links, images |-> x.images,
         processed_at |-> now]
  IN  Rec[r]

\* process_html_file(path) at time now, reading the raw directory rawdir
process_html_file(rawdir, path, now) ==
  IF ~rawdir[os_path_basename(path)].readable
  THEN [out |-> NoJson, err |-> "PermissionError: " \o path]
  ELSE [out |-> Record(os_path_basename(path),
                       strip_html(Decode(rawdir[os_path_basename(path)].bytes)), now),
        err |-> None]

\* re.match of page_ and digits and .html to the end, IGNORECASE: group 1 or None
PageStem(base) ==
  LET Match[b \in STRING] ==
        LET Group[e \in Nat] ==
              IF e > 6 /\ Lower(SubSeq(b, e, Len(b))) = ".html"
              THEN SubSeq(b, 1, e - 1) ELSE None
        IN  IF StartsWithCI(b, 1, "page_")
            THEN Group[RunEnd(LAMBDA c : Ord[c] >= 48 /\ Ord[c] <= 57, b, 6)]
            ELSE None
  IN  Match[base]

\* the stem of the output record of the idx-th file
Stem(path, idx) ==
  LET Named[m \in STRING] == IF m # None THEN m ELSE "page_" \o IntToStr(idx)
  IN  Named[PageStem(os_path_basename(path))]


(***************************************************************************)
(* State                                                                   *)
(***************************************************************************)
VARIABLES
  raw,               \* RAW_DIR: file name -> [readable, bytes]
  processed,         \* PROCESSED_DIR: file name -> file
  fetch_complete,    \* STATUS_DIR/fetch_complete.json: "absent", "valid", "garbage"
  process_complete,  \* STATUS_DIR/process_complete.json
  final_report,      \* ANALYSIS_DIR/final_report.json
  clock,             \* the time utcnow_iso() returns next
  pc_p,              \* Processor: position in main
  html_files, idx, results, success, failed, status,   \* Processor: locals of main
  out,               \* Processor: the record being written
  pc_a,              \* Analyzer: position in main
  processed_files, pos, docs,                  \* Analyzer: locals of main
  report             \* Analyzer: the report being written

fs_vars == <<raw, processed, fetch_complete, process_complete, final_report, clock>>
proc_vars == <<pc_p, html_files, idx, results, success, failed, status, out>>
ana_vars == <<pc_a, processed_files, pos, docs, report>>
vars == <<fs_vars, proc_vars, ana_vars>>

EmptyReport ==
  [processing_timestamp |-> 0, documents_processed |-> 0, total_words |-> 0,
   unique_words |-> 0, top_100_words |-> <<>>, document_similarity |-> <<>>,
   top_bigrams |-> <<>>, top_trigrams |-> <<>>,
   readability |-> [avg_sentence_length |-> 0, avg_word_length |-> 0,
                    complexity_score |-> 0]]

\* partial functions from a set of names to a set of values
PartialFunctions(names, values) ==
  UNION {[dom -> values] : dom \in SUBSET names}

Init ==
  /\ raw \in PartialFunctions(RawNames, RawContents)
  /\ \A n \in DOMAIN raw : ~EndsWith(n, ".html") => ~raw[n].readable
  /\ processed \in PartialFunctions(ForeignNames, ForeignFiles)
  /\ fetch_complete = "absent"
  /\ process_complete = Absent(EmptyManifest)
  /\ final_report = Absent(EmptyReport)
  /\ clock = 1
  /\ pc_p = "wait"
  /\ html_files = <<>> /\ idx = 1 /\ results = <<>> /\ success = 0 /\ failed = 0
  /\ status = EmptyManifest
  /\ out = NoJson
  /\ pc_a = "wait"
  /\ processed_files = <<>> /\ pos = 1 /\ docs = <<>>
  /\ report = EmptyReport

(***************************************************************************)
(* The fetch stage (external): the raw files are in place, it leaves its   *)
(* marker, whose content this pipeline does not control.                   *)
(***************************************************************************)
FetchComplete ==
  /\ fetch_complete = "absent"
  /\ fetch_complete' \in {"valid", "garbage"}
  /\ UNCHANGED <<raw, processed, process_complete, final_report, clock>>
  /\ UNCHANGED <<proc_vars, ana_vars>>

(***************************************************************************)
(* Processor main                                                          *)
(***************************************************************************)
\* while not os.path.exists(fetch_done): sleep
ProcWait ==
  /\ pc_p = "wait"
  /\ pc_p' = IF fetch_complete # "absent" THEN "start" ELSE "wait"
  /\ UNCHANGED <<html_files, idx, results, success, failed, status, out>>
  /\ UNCHANGED <<fs_vars, ana_vars>>

\* ProcStart that takes the raw files in whatever order glob lists them
ProcStart_Unsorted ==
  /\ pc_p = "start"
  /\ \E ok \in BOOLEAN :
       IF ok
       THEN /\ html_files' \in
                 {q \in [1..Cardinality(Glob(RAW_DIR, DOMAIN raw, ".html"))
                           -> Glob(RAW_DIR, DOMAIN raw, ".html")] :
                    \A i, j \in DOMAIN q : i # j => q[i] # q[j]}
            /\ idx' = 1 /\ results' = <<>> /\ success' = 0 /\ failed' = 0
            /\ pc_p' = "loop"
       ELSE /\ pc_p' = "crashed"
            /\ UNCHANGED <<html_files, idx, results, success, failed>>
  /\ UNCHANGED <<status, out, fs_vars, ana_vars>>

\* os.makedirs of both directories, then the sorted glob of the raw files;
\* makedirs raising ends the process
ProcStart ==
  /\ pc_p = "start"
  /\ \E ok \in BOOLEAN :
       IF ok
       THEN /\ html_files' = SortedStrings(Glob(RAW_DIR, DOMAIN raw, ".html"))
            /\ idx' = 1 /\ results' = <<>> /\ success' = 0 /\ failed' = 0
            /\ pc_p' = "loop"
       ELSE /\ pc_p' = "crashed"
            /\ UNCHANGED <<html_files, idx, results, success, failed>>
  /\ UNCHANGED <<status, out, fs_vars, ana_vars>>

\* ProcProcessFile with a failed branch that does not count the failure
ProcProcessFile_NoCount ==
  /\ pc_p = "loop" /\ idx <= Len(html_files)
  /\ \E r \in {process_html_file(raw, html_files[idx], clock)} :
         IF r.err = None
         THEN /\ out' = r.out
              /\ clock' = clock + 1
              /\ pc_p' = "write_open"
              /\ UNCHANGED <<idx, results, failed>>
         ELSE /\ out' = r.out
              /\ results' = Append(results,
                   [source |-> os_path_basename(html_files[idx]), output |-> None,
                    status |-> "failed", error |-> r.err])
              /\ idx' = idx + 1
              /\ UNCHANGED <<clock, pc_p, failed>>
  /\ UNCHANGED <<html_files, success, status>>
  /\ UNCHANGED <<raw, processed, fetch_complete, process_complete, final_report>>
  /\ UNCHANGED ana_vars

\* process_html_file without the try/except: a read error propagates
ProcProcessFile_NoExcept ==
  /\ pc_p = "loop" /\ idx <= Len(html_files)
  /\ \E r \in {process_html_file(raw, html_files[idx], clock)} :
         IF r.err = None
         THEN /\ out' = r.out
              /\ clock' = clock + 1
              /\ pc_p' = "write_open"
         ELSE /\ pc_p' = "crashed"
              /\ UNCHANGED <<out, clock>>
  /\ UNCHANGED <<html_files, idx, results, success, failed, status>>
  /\ UNCHANGED <<raw, processed, fetch_complete, process_complete, final_report>>
  /\ UNCHANGED ana_vars

\* one iteration up to the branch: process_html_file, and the failed branch
ProcProcessFile ==
  /\ pc_p = "loop" /\ idx <= Len(html_files)
  /\ \E r \in {process_html_file(raw, html_files[idx], clock)} :
         IF r.err = None
         THEN /\ out' = r.out
              /\ clock' = clock + 1
              /\ pc_p' = "write_open"
              /\ UNCHANGED <<idx, results, failed>>
         ELSE /\ out' = r.out
              /\ results' = Append(results,
                   [source |-> os_path_basename(html_files[idx]), output |-> None,
                    status |-> "failed", error |-> r.err])
              /\ failed' = failed + 1
              /\ idx' = idx + 1
              /\ UNCHANGED <<clock, pc_p>>
  /\ UNCHANGED <<html_files, success, status>>
  /\ UNCHANGED <<raw, processed, fetch_complete, process_complete, final_report>>
  /\ UNCHANGED ana_vars

\* the path of the record of the current file
out_path == os_path_join(PROCESSED_DIR, Stem(html_files[idx], idx) \o ".json")

\* write_json(out_path, out): makedirs and open
ProcRecordOpen ==
  /\ pc_p = "write_open"
  /\ processed' = (os_path_basename(out_path) :> OpenedFile) @@ processed
  /\ pc_p' = "write_dump"
  /\ UNCHANGED <<html_files, idx, results, success, failed, status, out>>
  /\ UNCHANGED <<raw, fetch_complete, process_complete, final_report, clock>>
  /\ UNCHANGED ana_vars

\* write_json(out_path, out): json.dump and close; then the success branch
ProcRecordDump ==
  /\ pc_p = "write_dump"
  /\ processed' = (os_path_basename(out_path) :> DumpedFile(out)) @@ processed
  /\ results' = Append(results,
        [source |-> os_path_basename(html_files[idx]),
         output |-> Stem(html_files[idx], idx) \o ".json",
         status |-> "success", error |-> None])
  /\ success' = success + 1
  /\ idx' = idx + 1
  /\ pc_p' = "loop"
  /\ UNCHANGED <<html_files, failed, status, out>>
  /\ UNCHANGED <<raw, fetch_complete, process_complete, final_report, clock>>
  /\ UNCHANGED ana_vars

\* write_json raises (OSError): main does not catch it
ProcRecordWriteFails ==
  /\ pc_p \in {"write_open", "write_dump"}
  /\ pc_p' = "crashed"
  /\ UNCHANGED <<html_files, idx, results, success, failed, status, out>>
  /\ UNCHANGED <<fs_vars, ana_vars>>

\* after the loop: the manifest is built, then write_json(process_complete.json,
\* status) does makedirs and open
ProcManifestOpen ==
  /\ pc_p = "loop" /\ idx > Len(html_files)
  /\ status' = [timestamp |-> clock, files_found |-> Len(html_files),
                successful |-> success, failed |-> failed, results |-> results]
  /\ clock' = clock + 1
  /\ process_complete' = [exists |-> TRUE, complete |-> FALSE, data |-> EmptyManifest]
  /\ pc_p' = "manifest_dump"
  /\ UNCHANGED <<html_files, idx, results, success, failed, out>>
  /\ UNCHANGED <<raw, processed, fetch_complete, final_report>>
  /\ UNCHANGED ana_vars

\* write_json(process_complete.json, status): json.dump and close
ProcManifestDump ==
  /\ pc_p = "manifest_dump"
  /\ process_complete' = [exists |-> TRUE, complete |-> TRUE, data |-> status]
  /\ pc_p' = "done"
  /\ UNCHANGED <<html_files, idx, results, success, failed, status, out>>
  /\ UNCHANGED <<raw, processed, fetch_complete, final_report, clock>>
  /\ UNCHANGED ana_vars

\* write_json of the manifest raises
ProcManifestWriteFails ==
  /\ \/ pc_p = "loop" /\ idx > Len(html_files)
     \/ pc_p = "manifest_dump"
  /\ pc_p' = "crashed"
  /\ UNCHANGED <<html_files, idx, results, success, failed, status, out>>
  /\ UNCHANGED <<fs_vars, ana_vars>>

Processor ==
  \/ ProcWait \/ ProcStart \/ ProcProcessFile
  \/ ProcRecordOpen \/ ProcRecordDump \/ ProcRecordWriteFails
  \/ ProcManifestOpen \/ ProcManifestDump \/ ProcManifestWriteFails


(***************************************************************************)
(* analyzer/analyze.py                                                     *)
(***************************************************************************)
\* a Counter: its keys in insertion order, each with its count
CounterAdd(counter, key) ==
  LET Add[c \in Any] ==
        IF \E k \in 1..Len(c) : c[k].key = key
        THEN [k \in 1..Len(c) |->
                IF c[k].key = key
                THEN [key |-> key, count |-> c[k].count + 1] ELSE c[k]]
        ELSE Append(c, [key |-> key, count |-> 1])
  IN  Add[counter]

\* Counter.update(items)
CounterUpdate(counter, items) ==
  LET Update[c \in Any, q \in Seq(STRING)] ==
        IF q = <<>> THEN c ELSE Update[CounterAdd(c, Head(q)), Tail(q)]
  IN  Update[counter, items]

\* Counter.most_common(n): sorted by count, highest first, equal counts in
\* insertion order; the first n
most_common(counter, n) ==
  LET Common[c \in Any] ==
        LET Before(i, j) ==
              \/ c[i].count > c[j].count
              \/ c[i].count = c[j].count /\ i < j
            Rank(j) == Cardinality({i \in 1..Len(c) : Before(i, j)}) + 1
        IN  [r \in 1..(IF n < Len(c) THEN n ELSE Len(c)) |->
               c[CHOOSE j \in 1..Len(c) : Rank(j) = r]]
  IN  Common[counter]

\* set(words)
ToSet(words) == {words[k] : k \in 1..Len(words)}

\* jaccard_similarity counting the words of the lists, not of their sets
jaccard_similarity_NoSets(doc1_words, doc2_words) ==
  IF Len(doc1_words) + Len(doc2_words) # 0
  THEN [num |-> Cardinality(ToSet(doc1_words) \cap ToSet(doc2_words)),
        den |-> Len(doc1_words) + Len(doc2_words)
                  - Cardinality(ToSet(doc1_words) \cap ToSet(doc2_words))]
  ELSE [num |-> 0, den |-> 1]

\* jaccard_similarity: the quotient as numerator and denominator
jaccard_similarity(doc1_words, doc2_words) ==
  LET Quotient[set1 \in SUBSET STRING, set2 \in SUBSET STRING] ==
        LET intersection == set1 \cap set2
            union == set1 \cup set2
        IN  IF union # {}
            THEN [num |-> Cardinality(intersection), den |-> Cardinality(union)]
            ELSE [num |-> 0, den |-> 1]
  IN  Quotient[ToSet(doc1_words), ToSet(doc2_words)]

tokenize_lower(text) == tokenize_words(Lower(text))

sentences_in_text(text) == split_sentences(text)

\* ngrams(tokens, n): the windows of n consecutive tokens
ngrams(tokens, n) ==
  LET Windows[ts \in Seq(STRING)] ==
        IF n <= 0 THEN <<>>
        ELSE [k \in 1..(IF Len(ts) >= n THEN Len(ts) - n + 1 ELSE 0) |->
                SubSeq(ts, k, k + n - 1)]
  IN  Windows[tokens]

\* [' '.join(g) for g in ngrams(words, n)]
JoinedNgrams(words, n) ==
  LET Joined[g \in Seq(Seq(STRING))] == [k \in 1..Len(g) |-> Join(" ", g[k])]
  IN  Joined[ngrams(words, n)]

\* read_processed_json(p) raises: open fails, or the content is not JSON
ReadRaises(file) == ~file.readable \/ ~file.complete \/ file.json.type = "invalid"

\* d.get("text", "")
DocText(d) == IF d.text_type = "absent" THEN "" ELSE d.text

\* the body of the aggregation loop raises AttributeError on this record:
\* d has no get, or text has no lower
DocRaises(d) == d.type # "object" \/ d.text_type \notin {"str", "absent"}

SumSeq(q) ==
  LET Sum[r \in Seq(Int)] == IF r = <<>> THEN 0 ELSE Head(r) + Sum[Tail(r)]
  IN  Sum[q]

EmptyTotals ==
  [total_words |-> 0, vocab_counter |-> <<>>, bigram_counter |-> <<>>,
   trigram_counter |-> <<>>, doc_word_lists |-> <<>>, all_sentences |-> 0,
   total_sentence_len_words |-> 0, total_word_len |-> 0]

\* the body of the aggregation loop for one document
Accumulate(acc, fname, words, sents) ==
  LET Acc[a \in Any, ws \in Seq(STRING), ss \in Seq(STRING)] ==
        [total_words |-> a.total_words + Len(ws),
         vocab_counter |-> CounterUpdate(a.vocab_counter, ws),
         bigram_counter |-> CounterUpdate(a.bigram_counter, JoinedNgrams(ws, 2)),
         trigram_counter |-> CounterUpdate(a.trigram_counter, JoinedNgrams(ws, 3)),
         doc_word_lists |-> (fname :> ws) @@ a.doc_word_lists,
         all_sentences |-> a.all_sentences + Len(ss),
         total_sentence_len_words |-> a.total_sentence_len_words
            + SumSeq([k \in 1..Len(ss) |-> Len(tokenize_lower(ss[k]))]),
         total_word_len |-> a.total_word_len + SumLen(ws)]
  IN  Acc[acc, words, sents]

\* the words of all documents, one after the other
AllWords(ds) ==
  LET Words[q \in Any] ==
        IF q = <<>> THEN <<>>
        ELSE tokenize_lower(DocText(Head(q).data)) \o Words[Tail(q)]
  IN  Words[ds]

\* the sentences of all documents, one after the other
AllSentences(ds) ==
  LET Sents[q \in Any] ==
        IF q = <<>> THEN <<>>
        ELSE sentences_in_text(DocText(Head(q).data)) \o Sents[Tail(q)]
  IN  Sents[ds]

\* an aggregation that slides its windows over the words of all documents
\* taken as one sequence
Aggregate_Concatenated(acc, ds) ==
  IF ds = <<>> THEN acc ELSE Accumulate(acc, "", AllWords(ds), AllSentences(ds))

\* the aggregation loop over docs, from the accumulators acc
Aggregate(acc, ds) ==
  LET Loop[a \in Any, q \in Any] ==
        IF q = <<>> THEN a
        ELSE Loop[Accumulate(a, Head(q).fname,
                             tokenize_lower(DocText(Head(q).data)),
                             sentences_in_text(DocText(Head(q).data))),
                  Tail(q)]
  IN  Loop[acc, ds]

\* permutations in place of combinations
Combinations2_Permutations(n) ==
  LET P == {q \in (1..n) \X (1..n) : q[1] # q[2]}
      Rank(q) == Cardinality({r \in P : r[1] < q[1] \/ (r[1] = q[1] /\ r[2] < q[2])}) + 1
  IN  [k \in 1..Cardinality(P) |-> CHOOSE q \in P : Rank(q) = k]

\* combinations(range(1, n + 1), 2), in the order itertools emits them
Combinations2(n) ==
  LET P == {q \in (1..n) \X (1..n) : q[1] < q[2]}
      Rank(q) == Cardinality({r \in P : r[1] < q[1] \/ (r[1] = q[1] /\ r[2] < q[2])}) + 1
  IN  [k \in 1..Cardinality(P) |-> CHOOSE q \in P : Rank(q) = k]

TopWords == 100
TopNgrams == 50

\* doc_word_lists.get(f, [])
WordsOf(doc_word_lists, f) ==
  IF f \in DOMAIN doc_word_lists THEN doc_word_lists[f] ELSE <<>>

\* the similarity of every pair of documents, in the order of combinations
Similarities(ds, doc_word_lists, pairs) ==
  LET Rounded[sim \in [num : Nat, den : Nat]] == RoundRatio(sim.num, sim.den, 1000000)
      Rows[ps \in Seq(Nat \X Nat)] ==
        [k \in 1..Len(ps) |->
           [doc1 |-> ds[ps[k][1]].fname, doc2 |-> ds[ps[k][2]].fname,
            similarity |->
              Rounded[jaccard_similarity(WordsOf(doc_word_lists, ds[ps[k][1]].fname),
                                         WordsOf(doc_word_lists, ds[ps[k][2]].fname))]]]
  IN  Rows[pairs]

\* top_100_words from the most common words
TopWordRows(top, total_words) ==
  LET Rows[tw \in Any] ==
        [k \in 1..Len(tw) |->
           [word |-> tw[k].key, count |-> tw[k].count,
            frequency |-> IF total_words # 0
                          THEN [num |-> tw[k].count, den |-> total_words]
                          ELSE [num |-> 0, den |-> 1]]]
  IN  Rows[top]

BigramRows(bi) ==
  LET Rows[b \in Any] == [k \in 1..Len(b) |-> [bigram |-> b[k].key, count |-> b[k].count]]
  IN  Rows[bi]

TrigramRows(tri) ==
  LET Rows[b \in Any] == [k \in 1..Len(b) |-> [trigram |-> b[k].key, count |-> b[k].count]]
  IN  Rows[tri]

\* the report assembled from the accumulators of the aggregation loop
AssembleReport(ds, now, totals) ==
  LET Report[t \in Any] ==
        [processing_timestamp |-> now,
         documents_processed |-> Len(ds),
         total_words |-> t.total_words,
         unique_words |-> Len(t.vocab_counter),
         top_100_words |-> TopWordRows(most_common(t.vocab_counter, TopWords), t.total_words),
         document_similarity |-> Similarities(ds, t.doc_word_lists, Combinations2(Len(ds))),
         top_bigrams |-> BigramRows(most_common(t.bigram_counter, TopNgrams)),
         top_trigrams |-> TrigramRows(most_common(t.trigram_counter, TopNgrams)),
         readability |->
           [avg_sentence_length |->
              IF t.all_sentences # 0
              THEN RoundRatio(t.total_sentence_len_words, t.all_sentences, 1000) ELSE 0,
            avg_word_length |->
              IF t.total_words # 0
              THEN RoundRatio(t.total_word_len, t.total_words, 1000) ELSE 0,
            complexity_score |->
              IF /\ t.all_sentences # 0 /\ t.total_sentence_len_words # 0
                 /\ t.total_words # 0 /\ t.total_word_len # 0
              THEN RoundRatio(t.total_sentence_len_words * t.total_word_len,
                              t.all_sentences * t.total_words, 1000)
              ELSE 0]]
  IN  Report[totals]

\* the report main assembles from docs at time now
BuildReport(ds, now) == AssembleReport(ds, now, Aggregate(EmptyTotals, ds))


(***************************************************************************)
(* Analyzer main                                                           *)
(***************************************************************************)
\* AnaWait without the existence test
AnaWait_NoPoll ==
  /\ pc_a = "wait"
  /\ pc_a' = "start"
  /\ UNCHANGED <<processed_files, pos, docs, report>>
  /\ UNCHANGED <<fs_vars, proc_vars>>

\* while not os.path.exists(proc_done): sleep
AnaWait ==
  /\ pc_a = "wait"
  /\ pc_a' = IF process_complete.exists THEN "start" ELSE "wait"
  /\ UNCHANGED <<processed_files, pos, docs, report>>
  /\ UNCHANGED <<fs_vars, proc_vars>>

\* AnaStart that takes the records in whatever order glob lists them
AnaStart_Unsorted ==
  /\ pc_a = "start"
  /\ \E ok \in BOOLEAN :
       IF ok
       THEN /\ processed_files' \in
                 {q \in [1..Cardinality(Glob(PROCESSED_DIR, DOMAIN processed, ".json"))
                           -> Glob(PROCESSED_DIR, DOMAIN processed, ".json")] :
                    \A i, j \in DOMAIN q : i # j => q[i] # q[j]}
            /\ docs' = <<>> /\ pos' = 1
            /\ pc_a' = "load"
       ELSE /\ pc_a' = "crashed"
            /\ UNCHANGED <<processed_files, pos, docs>>
  /\ UNCHANGED <<report, fs_vars, proc_vars>>

\* os.makedirs(ANALYSIS_DIR), then the sorted glob of the processed records;
\* makedirs raising ends the process
AnaStart ==
  /\ pc_a = "start"
  /\ \E ok \in BOOLEAN :
       IF ok
       THEN /\ processed_files' =
                 SortedStrings(Glob(PROCESSED_DIR, DOMAIN processed, ".json"))
            /\ docs' = <<>> /\ pos' = 1
            /\ pc_a' = "load"
       ELSE /\ pc_a' = "crashed"
            /\ UNCHANGED <<processed_files, pos, docs>>
  /\ UNCHANGED <<report, fs_vars, proc_vars>>

\* one iteration of the loading loop: a record that cannot be read is skipped
AnaRead ==
  /\ pc_a = "load" /\ pos <= Len(processed_files)
  /\ LET p == processed_files[pos]
         file == processed[os_path_basename(p)]
     IN  docs' = IF ReadRaises(file) THEN docs
                 ELSE Append(docs, [fname |-> os_path_basename(p), data |-> file.json])
  /\ pos' = pos + 1
  /\ UNCHANGED <<pc_a, processed_files, report>>
  /\ UNCHANGED <<fs_vars, proc_vars>>

\* the aggregation loop and the assembly of the report
AnaAggregate ==
  /\ pc_a = "load" /\ pos > Len(processed_files)
  /\ \A k \in 1..Len(docs) : ~DocRaises(docs[k].data)
  /\ report' = BuildReport(docs, clock)
  /\ clock' = clock + 1
  /\ pc_a' = "write_open"
  /\ UNCHANGED <<processed_files, pos, docs>>
  /\ UNCHANGED <<raw, processed, fetch_complete, process_complete, final_report>>
  /\ UNCHANGED proc_vars

\* the aggregation loop raises AttributeError on a record: main does not
\* catch it
AnaAggregateRaises ==
  /\ pc_a = "load" /\ pos > Len(processed_files)
  /\ \E k \in 1..Len(docs) : DocRaises(docs[k].data)
  /\ pc_a' = "crashed"
  /\ UNCHANGED <<processed_files, pos, docs, report>>
  /\ UNCHANGED <<fs_vars, proc_vars>>

\* write_json(final_report.json, report): makedirs and open
AnaReportOpen ==
  /\ pc_a = "write_open"
  /\ final_report' = [exists |-> TRUE, complete |-> FALSE, data |-> EmptyReport]
  /\ pc_a' = "write_dump"
  /\ UNCHANGED <<processed_files, pos, docs, report>>
  /\ UNCHANGED <<raw, processed, fetch_complete, process_complete, clock>>
  /\ UNCHANGED proc_vars

\* write_json(final_report.json, report): json.dump and close
AnaReportDump ==
  /\ pc_a = "write_dump"
  /\ final_report' = [exists |-> TRUE, complete |-> TRUE, data |-> report]
  /\ pc_a' = "done"
  /\ UNCHANGED <<processed_files, pos, docs, report>>
  /\ UNCHANGED <<raw, processed, fetch_complete, process_complete, clock>>
  /\ UNCHANGED proc_vars

\* write_json of the report raises
AnaReportWriteFails ==
  /\ pc_a \in {"write_open", "write_dump"}
  /\ pc_a' = "crashed"
  /\ UNCHANGED <<processed_files, pos, docs, report>>
  /\ UNCHANGED <<fs_vars, proc_vars>>

Analyzer ==
  \/ AnaWait \/ AnaStart \/ AnaRead \/ AnaAggregate \/ AnaAggregateRaises
  \/ AnaReportOpen \/ AnaReportDump \/ AnaReportWriteFails

Next == FetchComplete \/ Processor \/ Analyzer

Spec == Init /\ [][Next]_vars


\* Both stages are processes the operating system keeps scheduling: a
\* stage that can take a step eventually takes one.
\* The initial states with at most one raw file.
FairInit == Init /\ DOMAIN raw \subseteq {"page_1.html"}

FairSpec == FairInit /\ [][Next]_vars /\ WF_vars(Processor) /\ WF_vars(Analyzer)


(***************************************************************************)
(* The Analyzer alone, run once or again on the processed directory a      *)
(* finished Processor run left, for every pair of short documents          *)
(***************************************************************************)
MaxTokens == 3
MaxRuns == 2

\* the sequences of at most n words of an alphabet
RECURSIVE WordSeqs(_, _)
WordSeqs(alphabet, n) ==
  IF n = 0 THEN {<<>>}
  ELSE WordSeqs(alphabet, n - 1)
         \cup {Append(q, w) : q \in WordSeqs(alphabet, n - 1), w \in alphabet}

\* html documents of at most MaxTokens words of an alphabet
TextsOver(alphabet) == {Join(" ", q) : q \in WordSeqs(alphabet, MaxTokens)}

\* a readable raw file with this content
RawFile(html) == [readable |-> TRUE, bytes |-> <<html>>]

\* the result entry of a successfully processed file
SuccessResult(source, output) ==
  [source |-> source, output |-> output, status |-> "success", error |-> None]

\* the state a Processor run over page_1.html and page_2.html ends in; the
\* Analyzer has not started
AnaInit ==
  /\ \E t1 \in TextsOver({"a", "b"}), t2 \in TextsOver({"b", "c"}) :
       /\ raw = ("page_1.html" :> RawFile(t1)) @@ ("page_2.html" :> RawFile(t2))
       /\ processed =
            ("page_1.json" :>
               DumpedFile(process_html_file(raw, os_path_join(RAW_DIR, "page_1.html"), 0).out))
            @@ ("page_2.json" :>
               DumpedFile(process_html_file(raw, os_path_join(RAW_DIR, "page_2.html"), 0).out))
  /\ fetch_complete = "valid"
  /\ html_files = SortedStrings(Glob(RAW_DIR, DOMAIN raw, ".html"))
  /\ results = <<SuccessResult("page_1.html", "page_1.json"),
                 SuccessResult("page_2.html", "page_2.json")>>
  /\ idx = 3 /\ success = 2 /\ failed = 0
  /\ status = [timestamp |-> 0, files_found |-> 2, successful |-> 2, failed |-> 0,
               results |-> results]
  /\ out = processed["page_2.json"].json
  /\ process_complete = [exists |-> TRUE, complete |-> TRUE, data |-> status]
  /\ pc_p = "done"
  /\ final_report = Absent(EmptyReport)
  /\ clock = 1
  /\ pc_a = "wait"
  /\ processed_files = <<>> /\ pos = 1 /\ docs = <<>>
  /\ report = EmptyReport

\* analyze.py is started again after a run that wrote its report
AnaRerun ==
  /\ pc_a = "done" /\ clock <= MaxRuns
  /\ pc_a' = "wait"
  /\ processed_files' = <<>> /\ pos' = 1 /\ docs' = <<>>
  /\ report' = EmptyReport
  /\ UNCHANGED <<fs_vars, proc_vars>>

AnaNext ==
  \/ AnaWait \/ AnaStart \/ AnaRead \/ AnaAggregate
  \/ AnaReportOpen \/ AnaReportDump \/ AnaReportWriteFails
  \/ AnaRerun

AnalyzerSpec == AnaInit /\ [][AnaNext]_vars


(***************************************************************************)
(* The Processor alone on one raw file, page_1.html, whose content is any  *)
(* short sequence of pieces of markup and text, well formed or not         *)
(***************************************************************************)
MaxPieces == 4

HtmlPieces == {"<p>", "</p>", "a", "<", ">", "\n", " "}

StripInit ==
  /\ \E pieces \in WordSeqs(HtmlPieces, MaxPieces) :
       raw = ("page_1.html" :> [readable |-> TRUE, bytes |-> pieces])
  /\ processed = <<>>
  /\ fetch_complete = "absent"
  /\ process_complete = Absent(EmptyManifest)
  /\ final_report = Absent(EmptyReport)
  /\ clock = 1
  /\ pc_p = "wait"
  /\ html_files = <<>> /\ idx = 1 /\ results = <<>> /\ success = 0 /\ failed = 0
  /\ status = EmptyManifest
  /\ out = NoJson
  /\ pc_a = "wait"
  /\ processed_files = <<>> /\ pos = 1 /\ docs = <<>>
  /\ report = EmptyReport

StripNext == FetchComplete \/ Processor

StripSpec == StripInit /\ [][StripNext]_vars


(***************************************************************************)
(* Properties                                                              *)
(***************************************************************************)
\* the record file a successful result names
RecordOf(r) == processed[r.output]

\* the names of the raw files the Processor's glob finds
RawHtmlNames == {os_path_basename(p) : p \in Glob(RAW_DIR, DOMAIN raw, ".html")}

\* C1: the Analyzer is past its wait only if process_complete.json exists;
\* whenever process_complete.json exists the Processor's loop is over and the
\* record of every successful result is completely written; and every record
\* the Analyzer has listed and still has to load exists and is complete.
C1_NoPartialUpstream ==
  /\ pc_a # "wait" => process_complete.exists
  /\ process_complete.exists =>
       /\ pc_p \in {"manifest_dump", "done", "crashed"}
       /\ idx > Len(html_files)
       /\ Len(results) = Len(html_files)
       /\ \A k \in 1..Len(results) :
            results[k].status = "success" =>
              /\ results[k].output \in DOMAIN processed
              /\ RecordOf(results[k]).complete
              /\ RecordOf(results[k]).json.type = "object"
  /\ pc_a = "load" =>
       \A k \in pos..Len(processed_files) :
          /\ os_path_basename(processed_files[k]) \in DOMAIN processed
          /\ processed[os_path_basename(processed_files[k])].complete

\* C1 witness: the Analyzer has loaded a record this Processor run wrote
C1_Witness ==
  /\ pc_a = "load" /\ pos > 1 /\ success > 0
  /\ \E k \in 1..Len(docs) : \E j \in 1..Len(results) : docs[k].fname = results[j].output

\* C2: the Analyzer's existence test succeeds only on a completely written
\* manifest.
C2_ManifestAtomic ==
  [][(pc_a = "wait" /\ pc_a' = "start") => process_complete.complete]_vars

\* C3: a written manifest has successful + failed = files_found and one
\* result per raw html file found.
C3_ManifestCounts ==
  process_complete.complete =>
    /\ process_complete.data.successful + process_complete.data.failed
         = process_complete.data.files_found
    /\ Len(process_complete.data.results) = process_complete.data.files_found
    /\ process_complete.data.files_found = Cardinality(RawHtmlNames)
    /\ {process_complete.data.results[k].source :
           k \in 1..Len(process_complete.data.results)} = RawHtmlNames

\* C3 witness: a manifest with both successes and failures
C3_Witness ==
  /\ process_complete.complete
  /\ process_complete.data.successful > 0
  /\ process_complete.data.failed > 0

\* C4 as claimed: the Processor never stops in the middle of its list of
\* files, whichever step of handling a file fails.
C4_NeverHalts == ~(pc_p = "crashed" /\ idx <= Len(html_files))

\* C4 amended: a raw file that cannot be read gets a failed result with an
\* error and the loop moves on, so the results cover the files in order and
\* a written manifest covers them all; the Processor stops in the middle of
\* the list only at a file it has read, while persisting its record, and
\* then no manifest exists.
C4_ReadFailureRecorded ==
  /\ pc_p \notin {"wait", "start"} /\ html_files # <<>> => Len(results) = idx - 1
  /\ \A k \in 1..Len(results) :
       /\ results[k].source = os_path_basename(html_files[k])
       /\ results[k].status = "failed" <=> ~raw[results[k].source].readable
       /\ results[k].status = "failed" =>
            results[k].error # None /\ results[k].output = None
  /\ pc_p = "crashed" /\ idx <= Len(html_files) =>
       /\ raw[os_path_basename(html_files[idx])].readable
       /\ ~process_complete.exists
  /\ process_complete.complete =>
       Len(process_complete.data.results) = Len(html_files)

\* C4 witness: a manifest is written in which a failed file is followed by a
\* successfully processed one
C4_Witness ==
  /\ process_complete.complete
  /\ \E k, j \in 1..Len(process_complete.data.results) :
       /\ k < j
       /\ process_complete.data.results[k].status = "failed"
       /\ process_complete.data.results[j].status = "success"

\* C5: two successfully processed raw files never share an output path, and
\* the records written are as many as the successes counted.
C5_OutputsDistinct ==
  /\ \A k, j \in 1..Len(results) :
       k # j /\ results[k].status = "success" /\ results[j].status = "success"
         => results[k].output # results[j].output
  /\ process_complete.complete =>
       Cardinality({process_complete.data.results[k].output :
                      k \in {j \in 1..Len(process_complete.data.results) :
                               process_complete.data.results[j].status = "success"}})
         = process_complete.data.successful

\* C6: the Analyzer never aborts between loading the records and writing
\* the report, whatever records it met.
C6_MalformedSkipped == [][~(pc_a = "load" /\ pc_a' = "crashed")]_vars

\* C7: with an unparseable fetch_complete.json the Processor never runs, and
\* with an unparseable process_complete.json no final_report.json is written.
C7_FailFast ==
  /\ fetch_complete = "garbage" =>
       pc_p \notin {"loop", "write_open", "write_dump", "manifest_dump", "done"}
  /\ process_complete.exists /\ ~process_complete.complete => ~final_report.exists

\* entries (key, count) are in the pinned order: count descending, then key
\* ascending
PinnedOrder(keys, counts) ==
  \A k \in 1..(Len(keys) - 1) :
     \/ counts[k] > counts[k + 1]
     \/ counts[k] = counts[k + 1] /\ StrLess(keys[k], keys[k + 1])

\* C8: the three top tables of a written report are in the pinned order.
C8_TiesLexicographic ==
  final_report.complete =>
    LET d == final_report.data
    IN  /\ PinnedOrder([k \in 1..Len(d.top_100_words) |-> d.top_100_words[k].word],
                       [k \in 1..Len(d.top_100_words) |-> d.top_100_words[k].count])
        /\ PinnedOrder([k \in 1..Len(d.top_bigrams) |-> d.top_bigrams[k].bigram],
                       [k \in 1..Len(d.top_bigrams) |-> d.top_bigrams[k].count])
        /\ PinnedOrder([k \in 1..Len(d.top_trigrams) |-> d.top_trigrams[k].trigram],
                       [k \in 1..Len(d.top_trigrams) |-> d.top_trigrams[k].count])

\* statistics.word_count of the document the Processor made of a raw file
WordCountOf(source) ==
  process_html_file(raw, os_path_join(RAW_DIR, source), 0).out.statistics.word_count

\* C9: when the processed directory held nothing before the Processor ran,
\* the report's total_words is the sum of the word counts of the documents
\* the manifest reports as successful, and documents_processed is the
\* manifest's successful count.
C9_TotalsMatchManifest ==
  /\ final_report.complete /\ process_complete.complete
  /\ \A n \in DOMAIN processed : n \notin ForeignNames
  =>
    LET m == process_complete.data
        ok == SelectSeq(m.results, LAMBDA r : r.status = "success")
    IN  /\ final_report.data.total_words
             = SumSeq([k \in 1..Len(ok) |-> WordCountOf(ok[k].source)])
        /\ final_report.data.documents_processed = m.successful

\* C10: the similarity table of a written report has one entry per unordered
\* pair of loaded documents, n(n-1)/2 in all, doc1 sorting before doc2, the
\* entries ordered by doc1 and then by doc2.
C10_SimilarityPairs ==
  final_report.complete =>
    LET sim == final_report.data.document_similarity
        names == {docs[k].fname : k \in 1..Len(docs)}
        n == final_report.data.documents_processed
    IN  /\ n = Len(docs)
        /\ 2 * Len(sim) = n * (n - 1)
        /\ \A k \in 1..Len(sim) : StrLess(sim[k].doc1, sim[k].doc2)
        /\ {<<sim[k].doc1, sim[k].doc2>> : k \in 1..Len(sim)}
             = {q \in names \X names : StrLess(q[1], q[2])}
        /\ \A k \in 1..(Len(sim) - 1) :
             \/ StrLess(sim[k].doc1, sim[k + 1].doc1)
             \/ sim[k].doc1 = sim[k + 1].doc1 /\ StrLess(sim[k].doc2, sim[k + 1].doc2)

\* C10 witness: a written report over three loaded documents
C10_Witness ==
  /\ final_report.complete
  /\ final_report.data.documents_processed = 3
  /\ Len(final_report.data.document_similarity) = 3

\* the lower-case words of the k-th loaded document
WordsOfDoc(k) == tokenize_lower(DocText(docs[k].data))

\* C11: for the word lists A and B of the two loaded documents,
\* Jaccard(A, A) = 1 when A has a word, Jaccard(A, B) = Jaccard(B, A),
\* Jaccard of two empty lists is 0, the value is |A n B| / |A u B| and lies
\* in [0, 1]; the sets {a,b,c} and {b,c,d} give 2/4; and the similarity a
\* report holds is that value rounded to six places.
C11_JaccardLaws ==
  /\ jaccard_similarity(<<"a", "b", "c">>, <<"b", "c", "d">>) = [num |-> 2, den |-> 4]
  /\ jaccard_similarity(<<>>, <<>>).num = 0
  /\ Len(docs) = 2 =>
       /\ \A k \in 1..2 :
            WordsOfDoc(k) # <<>> =>
              jaccard_similarity(WordsOfDoc(k), WordsOfDoc(k)).num
                = jaccard_similarity(WordsOfDoc(k), WordsOfDoc(k)).den
       /\ jaccard_similarity(WordsOfDoc(1), WordsOfDoc(2))
            = jaccard_similarity(WordsOfDoc(2), WordsOfDoc(1))
       /\ jaccard_similarity(WordsOfDoc(1), WordsOfDoc(2)).num >= 0
       /\ jaccard_similarity(WordsOfDoc(1), WordsOfDoc(2)).num
            <= jaccard_similarity(WordsOfDoc(1), WordsOfDoc(2)).den
       /\ jaccard_similarity(WordsOfDoc(1), WordsOfDoc(2)).den > 0
       /\ ToSet(WordsOfDoc(1)) \cup ToSet(WordsOfDoc(2)) # {} =>
            /\ jaccard_similarity(WordsOfDoc(1), WordsOfDoc(2)).num
                 = Cardinality(ToSet(WordsOfDoc(1)) \cap ToSet(WordsOfDoc(2)))
            /\ jaccard_similarity(WordsOfDoc(1), WordsOfDoc(2)).den
                 = Cardinality(ToSet(WordsOfDoc(1)) \cup ToSet(WordsOfDoc(2)))
       /\ pc_a \in {"write_open", "write_dump", "done"} =>
            /\ Len(report.document_similarity) = 1
            /\ report.document_similarity[1].similarity
                 = RoundRatio(jaccard_similarity(WordsOfDoc(1), WordsOfDoc(2)).num,
                              jaccard_similarity(WordsOfDoc(1), WordsOfDoc(2)).den,
                              1000000)
            /\ WordsOfDoc(1) # <<>> /\ ToSet(WordsOfDoc(1)) = ToSet(WordsOfDoc(2)) =>
                 report.document_similarity[1].similarity = 1000000

\* C11 witness: a written report whose two documents, one with a repeated
\* word, share one word of three: similarity 1/3
C11_Witness ==
  /\ final_report.complete
  /\ Len(docs) = 2
  /\ Len(WordsOfDoc(1)) = 3
  /\ ToSet(WordsOfDoc(1)) = {"a", "b"} /\ ToSet(WordsOfDoc(2)) = {"b", "c"}
  /\ final_report.data.document_similarity[1].similarity = 333333

\* a report without its processing_timestamp
WithoutTimestamp(rep) == [rep EXCEPT !.processing_timestamp = 0]

\* C12: the report a later run of the Analyzer is about to write over the
\* report of an earlier run, the processed directory unchanged in between,
\* equals the earlier report in every field but processing_timestamp, and
\* so does the report it has written.
C12_RerunSameReport ==
  /\ pc_a = "write_open" /\ final_report.complete =>
       WithoutTimestamp(report) = WithoutTimestamp(final_report.data)
  /\ pc_a = "done" /\ clock > 2 =>
       /\ final_report.complete
       /\ WithoutTimestamp(final_report.data) = WithoutTimestamp(BuildReport(docs, 1))

\* C12 witness: a second run has built its report, over documents with
\* words, while the report of the first run is still in place; the two
\* differ in their timestamps
C12_Witness ==
  /\ pc_a = "write_open" /\ final_report.complete
  /\ report.total_words > 1 /\ report.documents_processed = 2
  /\ report.processing_timestamp # final_report.data.processing_timestamp

\* C13: when the raw directory holds no html file and the processed
\* directory holds nothing, the Processor finds no file and a manifest it
\* writes has files_found, successful and failed 0 and no results; the
\* Analyzer loads no document, so nothing in its loop can raise, and a
\* report it writes has documents_processed, total_words and unique_words 0,
\* empty tables and readability values 0.
C13_EmptyInput ==
  (\A n \in DOMAIN raw : ~EndsWith(n, ".html")) /\ DOMAIN processed = {} =>
    /\ pc_p \notin {"wait", "start"} => html_files = <<>>
    /\ results = <<>> /\ success = 0 /\ failed = 0
    /\ process_complete.complete =>
         /\ process_complete.data.files_found = 0
         /\ process_complete.data.successful = 0
         /\ process_complete.data.failed = 0
         /\ process_complete.data.results = <<>>
    /\ docs = <<>>
    /\ final_report.complete =>
         /\ final_report.data.documents_processed = 0
         /\ final_report.data.total_words = 0
         /\ final_report.data.unique_words = 0
         /\ final_report.data.top_100_words = <<>>
         /\ final_report.data.top_bigrams = <<>>
         /\ final_report.data.top_trigrams = <<>>
         /\ final_report.data.document_similarity = <<>>
         /\ final_report.data.readability =
              [avg_sentence_length |-> 0, avg_word_length |-> 0, complexity_score |-> 0]

\* C13 witness: over an empty raw directory both stages are done, manifest
\* and report written
C13_Witness ==
  /\ DOMAIN raw = {} /\ DOMAIN processed = {}
  /\ pc_p = "done" /\ process_complete.complete
  /\ pc_a = "done" /\ final_report.complete

\* the Analyzer was ended by an OSError of os.makedirs or write_json, not by
\* an exception of its own code
AnaOSError == pc_a = "crashed" /\ \A k \in 1..Len(docs) : ~DocRaises(docs[k].data)

\* C14, waiting: a stage leaves its wait loop only when its upstream marker
\* exists.
C14_WaitsForMarker ==
  [][/\ (pc_p = "wait" /\ pc_p' # "wait" => fetch_complete # "absent")
     /\ (pc_a = "wait" /\ pc_a' # "wait" => process_complete.exists)]_vars

\* C14, progress of the Processor: once fetch_complete.json exists the
\* Processor eventually writes process_complete.json, unless an OSError of
\* os.makedirs or write_json ends it.
C14_EventuallyManifest ==
  (fetch_complete # "absent") ~> (process_complete.complete \/ pc_p = "crashed")

\* C14: a stage leaves its wait loop only when its marker exists, and under
\* fair scheduling, unless an OSError ends a stage, fetch_complete.json
\* leads to process_complete.json and process_complete.json leads to
\* final_report.json.
C14_EventuallyReport ==
  /\ C14_WaitsForMarker
  /\ C14_EventuallyManifest
  /\ process_complete.exists ~> (final_report.complete \/ AnaOSError)

\* the text process_html_file extracted from the file it last read
ExtractedText == IF out.type = "object" THEN out.text ELSE ""

\* C15, tag delimiters: the extracted text holds no '<' and no '>'.
C15_NoTagDelimiters ==
  \A k \in 1..Len(ExtractedText) : At(ExtractedText, k) \notin {"<", ">"}

\* C15, blank lines: the extracted text holds no run of three newlines and
\* neither begins nor ends with a newline.
C15_NoBlankRuns ==
  /\ \A k \in 1..(Len(ExtractedText) - 2) : SubSeq(ExtractedText, k, k + 2) # "\n\n\n"
  /\ ExtractedText # "" =>
       At(ExtractedText, 1) # "\n" /\ At(ExtractedText, Len(ExtractedText)) # "\n"

\* C15: for every input, the text strip_html returns holds no tag delimiter,
\* no run of three or more newlines and no leading or trailing blank line.
C15_CleanText == C15_NoTagDelimiters /\ C15_NoBlankRuns

\* the strings of a sequence are in strictly ascending lexicographic order
Ascending(names) == \A k \in 1..(Len(names) - 1) : StrLess(names[k], names[k + 1])

\* the source files of a results list
SourcesOf(rs) == [k \in 1..Len(rs) |-> rs[k].source]

\* C16: the Processor's list is the raw html files in ascending order of
\* filename; the results are the outcomes of exactly the files before the
\* current one, in that order, one file finished before the next is begun;
\* the manifest's results are in ascending order of filename; and the
\* Analyzer lists and loads the records in ascending order of filename.
C16_SortedOrder ==
  /\ pc_p \in {"loop", "write_open", "write_dump", "manifest_dump", "done"} =>
       /\ Ascending(html_files)
       /\ {os_path_basename(html_files[k]) : k \in 1..Len(html_files)} = RawHtmlNames
  /\ Len(results) = idx - 1
  /\ \A k \in 1..Len(results) : results[k].source = os_path_basename(html_files[k])
  /\ pc_p \in {"write_open", "write_dump"} => idx <= Len(html_files)
  /\ process_complete.complete =>
       /\ Ascending(SourcesOf(process_complete.data.results))
       /\ {process_complete.data.results[k].source :
             k \in 1..Len(process_complete.data.results)} = RawHtmlNames
  /\ Ascending(processed_files)
  /\ Ascending([k \in 1..Len(docs) |-> docs[k].fname])
  /\ \A k \in 1..Len(docs) :
       \E j \in 1..(pos - 1) : os_path_basename(processed_files[j]) = docs[k].fname

\* both stages finished, each having handled at least two files
C16_Witness ==
  /\ pc_p = "done" /\ Len(process_complete.data.results) >= 2
  /\ pc_a = "done" /\ Len(docs) >= 2

\* the number of windows of n consecutive words that spell gram
Occurrences(words, gram, n) ==
  Cardinality({i \in 1..(Len(words) - n + 1) : Join(" ", SubSeq(words, i, i + n - 1)) = gram})

\* the occurrences of gram in the loaded documents, each taken by itself
DocOccurrences(gram, n) ==
  SumSeq([k \in 1..Len(docs) |-> Occurrences(WordsOfDoc(k), gram, n)])

\* max(0, k - n + 1) for the k words of the d-th loaded document
WindowsOfDoc(d, n) ==
  IF Len(WordsOfDoc(d)) >= n THEN Len(WordsOfDoc(d)) - n + 1 ELSE 0

\* C17: in a report, the bigram counts add up to the sum over the documents
\* of max(0, k - 1) for the k tokens of a document and the trigram counts to
\* the sum of max(0, k - 2); and the count of every n-gram is the number of
\* times it occurs as consecutive tokens inside one document.
C17_PerDocumentNgrams ==
  pc_a \in {"write_open", "write_dump", "done"} =>
    /\ SumSeq([j \in 1..Len(report.top_bigrams) |-> report.top_bigrams[j].count])
         = SumSeq([d \in 1..Len(docs) |-> WindowsOfDoc(d, 2)])
    /\ SumSeq([j \in 1..Len(report.top_trigrams) |-> report.top_trigrams[j].count])
         = SumSeq([d \in 1..Len(docs) |-> WindowsOfDoc(d, 3)])
    /\ \A j \in 1..Len(report.top_bigrams) :
         report.top_bigrams[j].count = DocOccurrences(report.top_bigrams[j].bigram, 2)
    /\ \A j \in 1..Len(report.top_trigrams) :
         report.top_trigrams[j].count = DocOccurrences(report.top_trigrams[j].trigram, 3)

\* a report over two documents of three tokens each, where the last token of
\* the first and the first token of the second are a pair no document holds
C17_Witness ==
  /\ pc_a = "done" /\ Len(docs) = 2
  /\ Len(WordsOfDoc(1)) = 3 /\ Len(WordsOfDoc(2)) = 3
  /\ DocOccurrences(WordsOfDoc(1)[3] \o " " \o WordsOfDoc(2)[1], 2) = 0
  /\ Len(report.top_trigrams) = 2

===============================================================================
